---- MODULE Spec2Model ----
(***************************************************************************)
(* envy: context-based environment variables.                              *)
(*                                                                         *)
(* Text is modelled at character level: a string is a sequence of          *)
(* one-character strings, a path is a sequence of components (each a       *)
(* string), the root directory being the empty sequence.  An Option is a   *)
(* sequence of length at most one.                                         *)
(***************************************************************************)
EXTENDS Integers, Sequences, FiniteSets, TLC

VARIABLES
    files,      \* the regular files that exist on disk (canonical paths)
    config,     \* the backing file Config.toml: None, or Some(document)
    settings,   \* the in-memory EnvySettings of the last invocation
    granted,    \* history: paths allowed and not denied since
    out,        \* what the last invocation did and printed
    call,       \* the last call of a function on its own, and what it returned
    procs       \* the invocations that run side by side, each with its step

vars == <<files, config, settings, granted, out, call, procs>>

(***************************************************************************)
(* Option and Result                                                       *)
(***************************************************************************)
None == <<>>

Some(x) == <<x>>

IsSome(o) == Len(o) = 1

Unwrap(o) == o[1]

Range(s) == {s[i] : i \in 1..Len(s)}

(***************************************************************************)
(* Strings                                                                 *)
(***************************************************************************)
\* char::is_whitespace, for the characters of the model's alphabet
IsWhitespace(c) == c \in {" ", "\t", "\n", "\r"}

StartsWith(s, pre) ==
    /\ Len(s) >= Len(pre)
    /\ SubSeq(s, 1, Len(pre)) = pre

RECURSIVE TrimStart(_)
TrimStart(s) ==
    IF s # <<>> /\ IsWhitespace(Head(s)) THEN TrimStart(Tail(s)) ELSE s

RECURSIVE TrimEnd(_)
TrimEnd(s) ==
    IF s # <<>> /\ IsWhitespace(s[Len(s)])
    THEN TrimEnd(SubSeq(s, 1, Len(s) - 1))
    ELSE s

\* str::trim
Trim(s) == TrimEnd(TrimStart(s))

\* str::strip_prefix(pre).unwrap_or(s)
StripPrefixOr(s, pre) ==
    IF StartsWith(s, pre) THEN SubSeq(s, Len(pre) + 1, Len(s)) ELSE s

\* the index of the first occurrence of c in s, 0 when there is none
RECURSIVE FindFrom(_, _, _)
FindFrom(s, c, i) ==
    IF i > Len(s) THEN 0
    ELSE IF s[i] = c THEN i
    ELSE FindFrom(s, c, i + 1)

\* str::split_once(c)
SplitOnce(s, c) ==
    LET i == FindFrom(s, c, 1) IN
    IF i = 0 THEN None
    ELSE Some(<<SubSeq(s, 1, i - 1), SubSeq(s, i + 1, Len(s))>>)

\* str::lines: split at "\n", a final empty piece is dropped, and a "\r"
\* right before a "\n" goes with it (a last line without "\n" is kept as
\* it is)
StripCr(l) ==
    IF l # <<>> /\ l[Len(l)] = "\r" THEN SubSeq(l, 1, Len(l) - 1) ELSE l

RECURSIVE Lines(_)
Lines(s) ==
    IF s = <<>> THEN <<>>
    ELSE LET i == FindFrom(s, "\n", 1) IN
         IF i = 0 THEN <<s>>
         ELSE <<StripCr(SubSeq(s, 1, i - 1))>> \o Lines(SubSeq(s, i + 1, Len(s)))

RECURSIVE Flatten(_)
Flatten(ss) == IF ss = <<>> THEN <<>> ELSE Head(ss) \o Flatten(Tail(ss))

(***************************************************************************)
(* Paths                                                                   *)
(***************************************************************************)
\* Path::parent: the path without its last component, None for the root
Parent(p) == IF p = <<>> THEN None ELSE Some(SubSeq(p, 1, Len(p) - 1))

\* Path::starts_with: base is a component-wise prefix of p
PathStartsWith(p, base) ==
    /\ Len(base) <= Len(p)
    /\ SubSeq(p, 1, Len(base)) = base

\* Path::to_string_lossy / the string a PathBuf serializes to
PathToStr(p) ==
    IF p = <<>> THEN <<"/">>
    ELSE Flatten([i \in 1..Len(p) |-> <<"/">> \o p[i]])

\* PathBuf::from(string) for an absolute path: the components between the
\* separators, empty ones skipped
RECURSIVE StrToPath(_)
StrToPath(s) ==
    IF s = <<>> THEN <<>>
    ELSE IF Head(s) = "/" THEN StrToPath(Tail(s))
    ELSE LET i == FindFrom(s, "/", 1) IN
         IF i = 0 THEN <<s>>
         ELSE <<SubSeq(s, 1, i - 1)>> \o StrToPath(SubSeq(s, i, Len(s)))

(***************************************************************************)
(* Regular expressions: the fragment of the regex crate's syntax that the  *)
(* rules of the model use: literal characters, '.', a postfix '*', a       *)
(* leading '^' and a trailing '$'.                                         *)
(***************************************************************************)
RECURSIVE RegexAtoms(_)
RegexAtoms(body) ==
    IF body = <<>> THEN <<>>
    ELSE IF Len(body) >= 2 /\ body[2] = "*"
         THEN <<[ch |-> body[1], star |-> TRUE]>> \o RegexAtoms(SubSeq(body, 3, Len(body)))
         ELSE <<[ch |-> body[1], star |-> FALSE]>> \o RegexAtoms(Tail(body))

\* Regex::new: None when the pattern does not compile (a repetition
\* operator with nothing to repeat)
RegexNew(src) ==
    LET start == src # <<>> /\ Head(src) = "^"
        rest  == IF start THEN Tail(src) ELSE src
        end   == rest # <<>> /\ rest[Len(rest)] = "$"
        body  == IF end THEN SubSeq(rest, 1, Len(rest) - 1) ELSE rest
    IN  IF body # <<>> /\ Head(body) = "*" THEN None
        ELSE Some([src |-> src, start |-> start, end |-> end,
                   atoms |-> RegexAtoms(body)])

AtomFits(a, c) == IF a.ch = "." THEN c # "\n" ELSE a.ch = c

\* the atoms from the i-th on match a piece of s that begins at position j
\* (and ends at the end of s when the pattern ends with '$')
RECURSIVE MatchHere(_, _, _, _)
MatchHere(re, i, s, j) ==
    IF i > Len(re.atoms) THEN (re.end => j = Len(s) + 1)
    ELSE IF re.atoms[i].star
         THEN \/ MatchHere(re, i + 1, s, j)
              \/ /\ j <= Len(s)
                 /\ AtomFits(re.atoms[i], s[j])
                 /\ MatchHere(re, i, s, j + 1)
         ELSE /\ j <= Len(s)
              /\ AtomFits(re.atoms[i], s[j])
              /\ MatchHere(re, i + 1, s, j + 1)

\* Regex::is_match: the pattern matches somewhere in s
IsMatch(re, s) ==
    \E j \in (IF re.start THEN {1} ELSE 1..(Len(s) + 1)) : MatchHere(re, 1, s, j)

(***************************************************************************)
(* EnvySettings (settings.rs)                                              *)
(*   envs  : Option<Vec<PathBuf>>                                          *)
(*   paths : Option<Vec<PathConfig>>, PathConfig = (pattern, env)          *)
(***************************************************************************)
EmptySettings == [envs |-> None, paths |-> None]

\* Vec::contains
Contains(s, x) == \E i \in 1..Len(s) : s[i] = x

\* Vec::retain(|p| p != path)
Retain(s, path) == SelectSeq(s, LAMBDA p : p # path)

\* add_env without its contains test
add_env_always_push(self, path) ==
    IF IsSome(self.envs)
    THEN [self EXCEPT !.envs = Some(Append(Unwrap(self.envs), path))]
    ELSE [self EXCEPT !.envs = Some(<<path>>)]

add_env(self, path) ==
    IF IsSome(self.envs)
    THEN IF ~Contains(Unwrap(self.envs), path)
         THEN [self EXCEPT !.envs = Some(Append(Unwrap(self.envs), path))]
         ELSE self
    ELSE [self EXCEPT !.envs = Some(<<path>>)]

\* remove_env that removes the first entry equal to the path only
RECURSIVE RemoveFirst(_, _)
RemoveFirst(s, path) ==
    IF s = <<>> THEN <<>>
    ELSE IF Head(s) = path THEN Tail(s)
    ELSE <<Head(s)>> \o RemoveFirst(Tail(s), path)

remove_env_first_only(self, path) ==
    IF IsSome(self.envs)
    THEN [self EXCEPT !.envs = Some(RemoveFirst(Unwrap(self.envs), path))]
    ELSE self

remove_env(self, path) ==
    IF IsSome(self.envs)
    THEN [self EXCEPT !.envs = Some(Retain(Unwrap(self.envs), path))]
    ELSE self

\* the index of the last rule whose pattern matches, 0 when none does
RECURSIVE FindRule_last(_, _, _)
FindRule_last(rules, path_str, i) ==
    IF i > Len(rules) THEN 0
    ELSE LET later == FindRule_last(rules, path_str, i + 1) IN
         IF later # 0 THEN later
         ELSE IF IsMatch(rules[i].pattern, path_str) THEN i
         ELSE 0

\* Iterator::find: the index of the first rule whose pattern matches, 0 when
\* none does
RECURSIVE FindRule(_, _, _)
FindRule(rules, path_str, i) ==
    IF i > Len(rules) THEN 0
    ELSE IF IsMatch(rules[i].pattern, path_str) THEN i
    ELSE FindRule(rules, path_str, i + 1)

matching_patterns(self, dir) ==
    LET path_str == PathToStr(dir) IN
    IF ~IsSome(self.paths) THEN None
    ELSE LET i == FindRule(Unwrap(self.paths), path_str, 1) IN
         IF i = 0 THEN None ELSE Some(Unwrap(self.paths)[i].env)

\* the filter with the paths compared as strings, not by components
EnvFileMatches_by_text(env, dir) ==
    /\ IsSome(Parent(env))
    /\ StartsWith(PathToStr(dir), PathToStr(Unwrap(Parent(env))))

\* the filter of matching_env_files
EnvFileMatches(env, dir) ==
    /\ IsSome(Parent(env))
    /\ PathStartsWith(dir, Unwrap(Parent(env)))

matching_env_files(self, dir) ==
    IF ~IsSome(self.envs) THEN <<>>
    ELSE SelectSeq(Unwrap(self.envs), LAMBDA env : EnvFileMatches(env, dir))

(***************************************************************************)
(* Settings::load and Settings::save.  The backing file holds a TOML       *)
(* document: the keys "envs" (an array of strings) and "paths" (an array   *)
(* of tables with the keys "pattern", a string, and "env", an array of     *)
(* strings), each present or absent; syntax_ok is FALSE for a file that    *)
(* is not TOML.                                                            *)
(***************************************************************************)
Ok(v) == [ok |-> TRUE, val |-> Some(v), err |-> ""]

Err(e) == [ok |-> FALSE, val |-> None, err |-> e]

\* Serialize that leaves the rules out
Serialize_without_rules(s) ==
    [syntax_ok |-> TRUE,
     envs  |-> IF IsSome(s.envs)
               THEN Some([i \in 1..Len(Unwrap(s.envs)) |-> PathToStr(Unwrap(s.envs)[i])])
               ELSE None,
     paths |-> None]

\* Serialize for EnvySettings: None is left out, a path is written as its
\* string, a regex as its pattern text (serde_regex)
Serialize(s) ==
    [syntax_ok |-> TRUE,
     envs  |-> IF IsSome(s.envs)
               THEN Some([i \in 1..Len(Unwrap(s.envs)) |-> PathToStr(Unwrap(s.envs)[i])])
               ELSE None,
     paths |-> IF IsSome(s.paths)
               THEN Some([i \in 1..Len(Unwrap(s.paths)) |->
                            [pattern |-> Unwrap(s.paths)[i].pattern.src,
                             env     |-> Unwrap(s.paths)[i].env]])
               ELSE None]

\* Deserialize for EnvySettings: an absent key gives None, a string of
\* "envs" a PathBuf, a "pattern" the compiled regex
Deserialize(doc) ==
    [envs  |-> IF IsSome(doc.envs)
               THEN Some([i \in 1..Len(Unwrap(doc.envs)) |-> StrToPath(Unwrap(doc.envs)[i])])
               ELSE None,
     paths |-> IF IsSome(doc.paths)
               THEN Some([i \in 1..Len(Unwrap(doc.paths)) |->
                            [pattern |-> Unwrap(RegexNew(Unwrap(doc.paths)[i].pattern)),
                             env     |-> Unwrap(doc.paths)[i].env]])
               ELSE None]

PatternsCompile(doc) ==
    IsSome(doc.paths) =>
        \A i \in 1..Len(Unwrap(doc.paths)) : IsSome(RegexNew(Unwrap(doc.paths)[i].pattern))

\* Settings::load without its exists test: no backing file is an error
Settings_load_must_exist(cfg) ==
    IF ~IsSome(cfg) THEN Err("Cannot read config")
    ELSE IF ~Unwrap(cfg).syntax_ok THEN Err("Cannot read config")
    ELSE IF ~PatternsCompile(Unwrap(cfg)) THEN Err("Cannot deserialize config")
    ELSE Ok(Deserialize(Unwrap(cfg)))

Settings_load(cfg) ==
    IF ~IsSome(cfg) THEN Ok(EmptySettings)
    ELSE IF ~Unwrap(cfg).syntax_ok THEN Err("Cannot read config")
    ELSE IF ~PatternsCompile(Unwrap(cfg)) THEN Err("Cannot deserialize config")
    ELSE Ok(Deserialize(Unwrap(cfg)))

\* the backing file after Settings::save
Settings_save(s) == Some(Serialize(s))

(***************************************************************************)
(* main.rs: reading and printing variables                                 *)
(***************************************************************************)
ExportPrefix == <<"e", "x", "p", "o", "r", "t", " ">>

\* fs::read_to_string: only a regular file that exists can be read
ReadToString(fs, path) ==
    IF path \in DOMAIN fs THEN Ok(fs[path]) ELSE Err("Cannot read env file")

\* the lines of the file that do not start with '#'
get_env_vars_from_file(fs, env) ==
    LET text == ReadToString(fs, env) IN
    IF ~text.ok THEN text
    ELSE Ok(SelectSeq(Lines(Unwrap(text.val)), LAMBDA line : ~StartsWith(line, <<"#">>)))

\* split_env_var that leaves the export prefix where it is
split_env_var_keeps_export(var) ==
    LET kv == SplitOnce(Trim(var), "=") IN
    IF IsSome(kv)
    THEN Some(<<Trim(Unwrap(kv)[1]), Trim(Unwrap(kv)[2])>>)
    ELSE None

split_env_var(var) ==
    LET trimmed == Trim(var)
        v       == StripPrefixOr(trimmed, ExportPrefix)
        kv      == SplitOnce(v, "=")
    IN  IF IsSome(kv)
        THEN Some(<<Trim(Unwrap(kv)[1]), Trim(Unwrap(kv)[2])>>)
        ELSE None

\* the lines export_bash_zsh (and source) print
export_bash_zsh(env_vars) ==
    [i \in 1..Len(env_vars) |->
        IF StartsWith(env_vars[i], ExportPrefix)
        THEN env_vars[i]
        ELSE ExportPrefix \o env_vars[i]]

\* the lines export_fish prints
RECURSIVE export_fish(_)
export_fish(env_vars) ==
    IF env_vars = <<>> THEN <<>>
    ELSE LET kv == split_env_var(Head(env_vars)) IN
         (IF IsSome(kv)
          THEN <<<<"s", "e", "t", " ", "-", "g", "x", " ">> \o Unwrap(kv)[1] \o <<" ">> \o Unwrap(kv)[2]>>
          ELSE <<>>) \o export_fish(Tail(env_vars))

\* serde_json::Map::insert
MapInsert(m, k, v) == [x \in (DOMAIN m) \cup {k} |-> IF x = k THEN v ELSE m[x]]

\* the object export_json prints: the pairs collected in order into a map
RECURSIVE JsonCollect(_, _)
JsonCollect(m, env_vars) ==
    IF env_vars = <<>> THEN m
    ELSE LET kv == split_env_var(Head(env_vars)) IN
         JsonCollect(IF IsSome(kv) THEN MapInsert(m, Unwrap(kv)[1], Unwrap(kv)[2]) ELSE m,
                     Tail(env_vars))

EmptyMap == <<>>

export_json(env_vars) == JsonCollect(EmptyMap, env_vars)

\* the loop of export over the matching env files: the files read so far
\* and the variables collected so far, stopped by the first file that cannot
\* be read
RECURSIVE ReadEnvFiles(_, _, _, _)
ReadEnvFiles(fs, env_files, read, acc) ==
    IF env_files = <<>> THEN [ok |-> TRUE, read |-> read, vars |-> acc]
    ELSE LET file_env_vars == get_env_vars_from_file(fs, Head(env_files)) IN
         IF ~file_env_vars.ok
         THEN [ok |-> FALSE, read |-> Append(read, Head(env_files)), vars |-> <<>>]
         ELSE ReadEnvFiles(fs, Tail(env_files), Append(read, Head(env_files)),
                           acc \o Unwrap(file_env_vars.val))

\* all_env_vars with the env files before the pattern
all_env_vars_files_first(fs, s, current_dir) ==
    LET patterns == matching_patterns(s, current_dir)
        first    == IF IsSome(patterns) THEN Unwrap(patterns) ELSE <<>>
        got      == ReadEnvFiles(fs, matching_env_files(s, current_dir), <<>>, <<>>)
    IN  [got EXCEPT !.vars = IF got.ok THEN got.vars \o first ELSE <<>>]

\* all_env_vars that reads every env file above the directory, registered
\* or not
all_env_vars_any_file(fs, s, current_dir) ==
    LET patterns == matching_patterns(s, current_dir)
        first    == IF IsSome(patterns) THEN Unwrap(patterns) ELSE <<>>
        present  == SelectSeq(<<<<<<"a">>, <<".", "e", "n", "v">>>>, <<<<"a">>, <<"b">>, <<".", "e", "n", "v">>>>>>,
                              LAMBDA f : f \in DOMAIN fs /\ PathStartsWith(current_dir, Unwrap(Parent(f))))
    IN  ReadEnvFiles(fs, present, <<>>, first)

\* all_env_vars of export: the variables of the matching pattern, then
\* those of each matching env file
all_env_vars(fs, s, current_dir) ==
    LET patterns == matching_patterns(s, current_dir)
        first    == IF IsSome(patterns) THEN Unwrap(patterns) ELSE <<>>
    IN  ReadEnvFiles(fs, matching_env_files(s, current_dir), <<>>, first)


(***************************************************************************)
(* The file system and the inputs of the model                             *)
(***************************************************************************)
DirA == <<<<"a">>>>

DirAB == <<<<"a">>, <<"b">>>>

DirABC == <<<<"a">>, <<"b">>, <<"c">>>>

DirABCD == <<<<"a">>, <<"b">>, <<"c">>, <<"d">>>>

DirAX == <<<<"a">>, <<"x">>>>

DirABc == <<<<"a">>, <<"b", "c">>>>

Root == <<>>

\* the directories, which always exist
Dirs == {Root, DirA, DirAB, DirABC, DirABCD, DirAX, DirABc}

EnvA == <<<<"a">>, <<".", "e", "n", "v">>>>

EnvAB == <<<<"a">>, <<"b">>, <<".", "e", "n", "v">>>>

EnvrcABC == <<<<"a">>, <<"b">>, <<"c">>, <<".", "e", "n", "v", "r", "c">>>>

\* the regular files, which come and go
FilePaths == {EnvA, EnvAB, EnvrcABC}

\* what a file may hold
Contents(p) ==
    IF p = EnvA THEN {<<"A", "=", "1", "\n", "#", " ", "c", "\n", "e", "x", "p", "o", "r", "t", " ", "K", "=", "a", "\n">>}
    ELSE IF p = EnvAB THEN {<<"K", "=", "b", "\n", "B", "=", "x", "=", "y", "\n", "\n", "n", "o", "e", "q", "\n", "Q", " ", "=", " ", "\"", "q", "\"">>}
    ELSE {<<"e", "x", "p", "o", "r", "t", " ", "E", "=", "r", "c", "\n", "P", "A", "T", "H", "_", "a", "d", "d", " ", "/", "x", "\n">>}

\* /l is a symbolic link to /a/b
LinkName == <<"l">>

LinkTarget == DirAB

\* the operand paths of allow, deny and load: the files by their own path,
\* and one of them through the link
Operands == FilePaths \cup {<<LinkName, <<".", "e", "n", "v">>>>}

\* the directories export is run in
Cwds == {DirAB, DirABCD, DirAX}

\* the path with its symbolic links resolved
Resolve(p) ==
    IF p # <<>> /\ Head(p) = LinkName THEN LinkTarget \o Tail(p) ELSE p

\* Path::exists
Exists(fs, p) == Resolve(p) \in (DOMAIN fs) \cup Dirs

\* Path::canonicalize of a path that exists
Canonicalize(p) == Resolve(p)

Shells == {"bash", "zsh", "fish", "json", "tcsh"}

\* the rules a user may have written into the backing file
RuleAB == [pattern |-> <<"^", "/", "a", "/", "b">>, env |-> <<<<"K", "=", "p">>, <<"P", "=", "1">>>>]

RuleC == [pattern |-> <<"c">>, env |-> <<<<"K", "=", "q">>>>]

RuleX == [pattern |-> <<"x", "$">>, env |-> <<<<"X", "=", "1">>>>]

RuleStar == [pattern |-> <<"b", ".", "*", "d">>, env |-> <<<<"e", "x", "p", "o", "r", "t", " ", "D", "=", "1">>>>]

RuleBad == [pattern |-> <<"*">>, env |-> <<<<"Z", "=", "0">>>>]

Rules == {RuleAB, RuleC, RuleX, RuleStar}

Doc(envs, paths) == [syntax_ok |-> TRUE, envs |-> envs, paths |-> paths]

NotToml == [syntax_ok |-> FALSE, envs |-> None, paths |-> None]

\* the backing file before the first invocation: absent, or as edited by
\* the user (envy edit)
InitConfigs ==
    {None,
     Some(NotToml),
     Some(Doc(None, Some(<<RuleBad>>))),
     Some(Doc(None, Some(<<RuleAB, RuleC>>))),
     Some(Doc(Some(<<>>), Some(<<RuleX, RuleStar, RuleAB>>)))}

(***************************************************************************)
(* The invocations of the command line (main.rs)                           *)
(***************************************************************************)
Report(cmd, arg, shell, ok, err, stdout, json, read) ==
    [cmd |-> cmd, arg |-> arg, shell |-> shell, ok |-> ok, err |-> err,
     stdout |-> stdout, json |-> json, read |-> read]

Failed(cmd, arg, shell, err, read) ==
    Report(cmd, arg, shell, FALSE, err, <<>>, EmptyMap, read)

NoCall == [fn |-> "none", args |-> <<>>, ret |-> <<>>]

Init ==
    /\ files = [p \in FilePaths |-> CHOOSE c \in Contents(p) : TRUE]
    /\ config \in InitConfigs
    /\ settings = None
    /\ granted = {}
    /\ out = Report("none", Root, "", TRUE, "", <<>>, EmptyMap, <<>>)
    /\ call = NoCall
    /\ procs = <<>>

\* allow that loads the settings before it looks for the file, and writes
\* them back when the file is not there
allow_save_first(env_file) ==
    LET loaded == Settings_load(config) IN
    IF ~loaded.ok
    THEN /\ out' = Failed("allow", env_file, "", loaded.err, <<>>)
         /\ settings' = None
         /\ UNCHANGED <<files, config, granted, call, procs>>
    ELSE IF ~Exists(files, env_file)
    THEN /\ out' = Failed("allow", env_file, "", "File does not exist", <<>>)
         /\ settings' = loaded.val
         /\ config' = Settings_save(Unwrap(loaded.val))
         /\ UNCHANGED <<files, granted, call, procs>>
    ELSE LET s == add_env(Unwrap(loaded.val), Canonicalize(env_file)) IN
         /\ settings' = Some(s)
         /\ config' = Settings_save(s)
         /\ granted' = granted \cup {Canonicalize(env_file)}
         /\ out' = Report("allow", env_file, "", TRUE, "", <<>>, EmptyMap, <<>>)
         /\ UNCHANGED <<files, call, procs>>

allow(env_file) ==
    LET loaded == Settings_load(config) IN
    IF ~Exists(files, env_file)
    THEN /\ out' = Failed("allow", env_file, "", "File does not exist", <<>>)
         /\ settings' = None
         /\ UNCHANGED <<files, config, granted, call, procs>>
    ELSE IF ~loaded.ok
    THEN /\ out' = Failed("allow", env_file, "", loaded.err, <<>>)
         /\ settings' = None
         /\ UNCHANGED <<files, config, granted, call, procs>>
    ELSE LET s == add_env(Unwrap(loaded.val), Canonicalize(env_file)) IN
         /\ settings' = Some(s)
         /\ config' = Settings_save(s)
         /\ granted' = granted \cup {Canonicalize(env_file)}
         /\ out' = Report("allow", env_file, "", TRUE, "", <<>>, EmptyMap, <<>>)
         /\ UNCHANGED <<files, call, procs>>

deny(env_file) ==
    LET loaded == Settings_load(config) IN
    IF ~Exists(files, env_file)
    THEN /\ out' = Failed("deny", env_file, "", "File does not exist", <<>>)
         /\ settings' = None
         /\ UNCHANGED <<files, config, granted, call, procs>>
    ELSE IF ~loaded.ok
    THEN /\ out' = Failed("deny", env_file, "", loaded.err, <<>>)
         /\ settings' = None
         /\ UNCHANGED <<files, config, granted, call, procs>>
    ELSE LET s == remove_env(Unwrap(loaded.val), Canonicalize(env_file)) IN
         /\ settings' = Some(s)
         /\ config' = Settings_save(s)
         /\ granted' = granted \ {Canonicalize(env_file)}
         /\ out' = Report("deny", env_file, "", TRUE, "", <<>>, EmptyMap, <<>>)
         /\ UNCHANGED <<files, call, procs>>

\* load: source the given file into the session
load(env_file) ==
    LET got == get_env_vars_from_file(files, Resolve(env_file)) IN
    /\ IF ~Exists(files, env_file)
       THEN out' = Failed("load", env_file, "", "File does not exist", <<>>)
       ELSE IF ~got.ok
       THEN out' = Failed("load", env_file, "", got.err, <<Resolve(env_file)>>)
       ELSE out' = Report("load", env_file, "", TRUE, "",
                          export_bash_zsh(Unwrap(got.val)), EmptyMap, <<Resolve(env_file)>>)
    /\ settings' = None
    /\ UNCHANGED <<files, config, granted, call, procs>>

\* what export prints, and the files it reads on the way
ExportReport(fs, s, shell, current_dir) ==
    LET all == all_env_vars(fs, s, current_dir) IN
    IF ~all.ok
    THEN Failed("export", current_dir, shell, "Cannot read env file", all.read)
    ELSE IF shell \in {"bash", "zsh"}
    THEN Report("export", current_dir, shell, TRUE, "",
                export_bash_zsh(all.vars), EmptyMap, all.read)
    ELSE IF shell = "fish"
    THEN Report("export", current_dir, shell, TRUE, "",
                export_fish(all.vars), EmptyMap, all.read)
    ELSE IF shell = "json"
    THEN Report("export", current_dir, shell, TRUE, "",
                <<>>, export_json(all.vars), all.read)
    ELSE Failed("export", current_dir, shell, "is currently not supported", all.read)

export(shell, current_dir) ==
    LET loaded == Settings_load(config) IN
    /\ IF ~loaded.ok
       THEN /\ out' = Failed("export", current_dir, shell, loaded.err, <<>>)
            /\ settings' = None
       ELSE /\ out' = ExportReport(files, Unwrap(loaded.val), shell, current_dir)
            /\ settings' = loaded.val
    /\ UNCHANGED <<files, config, granted, call, procs>>

\* between two invocations the user writes or removes a file; what the last
\* invocation printed is gone by then
Idle == Report("none", Root, "", TRUE, "", <<>>, EmptyMap, <<>>)

WriteFile(p, c) ==
    /\ files' = [q \in (DOMAIN files) \cup {p} |-> IF q = p THEN c ELSE files[q]]
    /\ settings' = None
    /\ out' = Idle
    /\ UNCHANGED <<config, granted, call, procs>>

RemoveFile(p) ==
    /\ p \in DOMAIN files
    /\ files' = [q \in (DOMAIN files) \ {p} |-> files[q]]
    /\ settings' = None
    /\ out' = Idle
    /\ UNCHANGED <<config, granted, call, procs>>

Next ==
    \/ \E f \in Operands : allow(f)
    \/ \E f \in Operands : deny(f)
    \/ \E f \in Operands : load(f)
    \/ \E sh \in Shells, d \in Cwds : export(sh, d)
    \/ \E p \in FilePaths : \E c \in Contents(p) : WriteFile(p, c)
    \/ \E p \in FilePaths : RemoveFile(p)

Spec == Init /\ [][Next]_vars


(***************************************************************************)
(* Properties of the command line                                          *)
(***************************************************************************)
\* the registered files of the backing file as it is now
RegisteredNow ==
    LET loaded == Settings_load(config) IN
    IF loaded.ok /\ IsSome(Unwrap(loaded.val).envs)
    THEN Range(Unwrap(Unwrap(loaded.val).envs))
    ELSE {}

\* the file system without the files that are not granted
OnlyGranted(fs) == [p \in (DOMAIN fs) \cap granted |-> fs[p]]

\* C1: the security gate.  After any sequence of allow and deny, export
\* reads only files that are registered in the backing file now, these are
\* the files allowed and not denied since, and what it prints is what it
\* would print if the other files did not exist: a file never allowed, or
\* denied and not allowed again, contributes nothing.
C1_SecurityGate ==
    /\ RegisteredNow = granted
    /\ out.cmd = "export" =>
          /\ Range(out.read) \subseteq RegisteredNow
          /\ Range(out.read) \subseteq granted
          /\ IsSome(settings) =>
                out = ExportReport(OnlyGranted(files), Unwrap(settings), out.shell, out.arg)

\* an export that read a registered file while another file, not granted,
\* sat in a directory above the current one
C1_Witness ==
    /\ out.cmd = "export"
    /\ out.ok
    /\ out.read # <<>>
    /\ \E f \in (DOMAIN files) \ granted : EnvFileMatches(f, out.arg)


\* what a "KEY=value" string defines, read off the text: the key is what
\* stands before the first '=' (an export prefix and blanks aside)
VarKey(v) == Unwrap(split_env_var(v))[1]

VarValue(v) == Unwrap(split_env_var(v))[2]

IsVar(v) == IsSome(split_env_var(v))

KeysOf(vs) == {VarKey(vs[i]) : i \in {j \in 1..Len(vs) : IsVar(vs[j])}}

\* the value of the last entry of vs with key k
LastDef(vs, k) ==
    LET last == CHOOSE i \in 1..Len(vs) :
                    /\ IsVar(vs[i]) /\ VarKey(vs[i]) = k
                    /\ \A j \in (i + 1)..Len(vs) : ~(IsVar(vs[j]) /\ VarKey(vs[j]) = k)
    IN  VarValue(vs[last])

\* the variables of a readable file
FileVars(f) == Unwrap(get_env_vars_from_file(files, f).val)

\* C4: merge precedence.  What export puts out is the variables of the
\* first matching pattern rule, then those of each active registered file
\* in registration order; in the JSON object a later entry overwrites an
\* earlier one with the same key, so a file wins over the pattern and a
\* later registered file over an earlier one.
C4_MergePrecedence ==
    (out.cmd = "export" /\ out.ok /\ IsSome(settings)) =>
        LET s       == Unwrap(settings)
            rule    == matching_patterns(s, out.arg)
            first   == IF IsSome(rule) THEN Unwrap(rule) ELSE <<>>
            active  == matching_env_files(s, out.arg)
            perFile == [i \in 1..Len(active) |-> FileVars(active[i])]
            merged  == first \o Flatten(perFile)
        IN  /\ out.read = active
            /\ out.shell \in {"bash", "zsh"} =>
                  /\ Len(out.stdout) = Len(merged)
                  /\ \A i \in 1..Len(merged) :
                        out.stdout[i] \in {merged[i], ExportPrefix \o merged[i]}
            /\ out.shell = "json" =>
                  /\ DOMAIN out.json = KeysOf(merged)
                  /\ \A k \in DOMAIN out.json :
                        /\ out.json[k] = LastDef(merged, k)
                        /\ \A i \in 1..Len(active) :
                              (/\ k \in KeysOf(perFile[i])
                               /\ \A j \in (i + 1)..Len(active) : k \notin KeysOf(perFile[j]))
                              => out.json[k] = LastDef(perFile[i], k)
                        /\ (\A i \in 1..Len(active) : k \notin KeysOf(perFile[i]))
                              => out.json[k] = LastDef(first, k)

\* a JSON export in which a rule and two files define K, the file in the
\* directory above registered last: its value is the one put out
C4_Witness ==
    /\ out.cmd = "export" /\ out.ok /\ out.shell = "json"
    /\ out.read = <<EnvAB, EnvA>>
    /\ IsSome(settings)
    /\ IsSome(matching_patterns(Unwrap(settings), out.arg))
    /\ <<"K">> \in KeysOf(Unwrap(matching_patterns(Unwrap(settings), out.arg)))
    /\ out.json[<<"K">>] = <<"a">>

NoDuplicates(s) == \A i, j \in 1..Len(s) : i # j => s[i] # s[j]

Count(s, x) == Cardinality({i \in 1..Len(s) : s[i] = x})

\* the registered files and the rules of an EnvySettings, an unset
\* collection counting as an empty one
FilesOf(s) == IF IsSome(s.envs) THEN Unwrap(s.envs) ELSE <<>>

RulesOf(s) == IF IsSome(s.paths) THEN Unwrap(s.paths) ELSE <<>>

\* C5: add_env is idempotent, add(add(s, p), p) = add(s, p); a path allowed
\* twice (by whatever name) is registered once, and allowing it again
\* changes nothing; starting from no registered files, no path is ever
\* registered more than once.
C5_AddIdempotent ==
    /\ LET loaded == Settings_load(config) IN
       loaded.ok => NoDuplicates(FilesOf(Unwrap(loaded.val)))
    /\ IsSome(settings) =>
          /\ NoDuplicates(FilesOf(Unwrap(settings)))
          /\ \A f \in Operands :
                LET once == add_env(Unwrap(settings), Canonicalize(f)) IN
                /\ add_env(once, Canonicalize(f)) = once
                /\ Count(FilesOf(once), Canonicalize(f)) = 1
    /\ (out.cmd = "allow" /\ out.ok) =>
          /\ Count(FilesOf(Unwrap(settings)), Canonicalize(out.arg)) = 1
          /\ Settings_save(add_env(Unwrap(settings), Canonicalize(out.arg))) = config

\* /a/b/.env allowed through the link when it was registered already (it is
\* not the last entry, where a new one would have gone)
C5_Witness ==
    /\ out.cmd = "allow" /\ out.ok
    /\ out.arg = <<LinkName, <<".", "e", "n", "v">>>>
    /\ IsSome(settings)
    /\ Len(FilesOf(Unwrap(settings))) >= 2
    /\ FilesOf(Unwrap(settings))[1] = EnvAB

\* C7: the round trip of the backing file.  Loading what save wrote gives
\* the same registered files in the same order and the same rules (pattern
\* and variables) in the same order, for every allow-list that is not empty.
C7_RoundTrip ==
    (IsSome(settings) /\ out.cmd \in {"allow", "deny"} /\ out.ok
       /\ (FilesOf(Unwrap(settings)) # <<>> \/ RulesOf(Unwrap(settings)) # <<>>)) =>
        LET s    == Unwrap(settings)
            back == Settings_load(config)
        IN  /\ config = Settings_save(s)
            /\ back.ok
            /\ FilesOf(Unwrap(back.val)) = FilesOf(s)
            /\ Len(RulesOf(Unwrap(back.val))) = Len(RulesOf(s))
            /\ \A i \in 1..Len(RulesOf(s)) :
                  /\ RulesOf(Unwrap(back.val))[i].pattern.src = RulesOf(s)[i].pattern.src
                  /\ RulesOf(Unwrap(back.val))[i].env = RulesOf(s)[i].env

\* an allow-list of two files and some rules was saved
C7_Witness ==
    /\ out.cmd = "allow" /\ out.ok
    /\ IsSome(settings)
    /\ Len(FilesOf(Unwrap(settings))) >= 2
    /\ Len(RulesOf(Unwrap(settings))) >= 2

\* a backing file that is not what load accepts: not TOML, or with a
\* pattern that is no regular expression
Malformed(doc) ==
    \/ ~doc.syntax_ok
    \/ /\ IsSome(doc.paths)
       /\ \E i \in 1..Len(Unwrap(doc.paths)) :
             Head(Unwrap(doc.paths)[i].pattern) = "*"

\* C8: the first run is no failure.  With no backing file load returns
\* the empty settings, and export (in a dialect it knows) succeeds and puts
\* out nothing; load fails only for a backing file that exists and is
\* malformed.
C8_FirstRun ==
    /\ ~IsSome(config) =>
          /\ Settings_load(config).ok
          /\ Unwrap(Settings_load(config).val) = EmptySettings
    /\ (~IsSome(config) /\ out.cmd = "export") =>
          /\ out.read = <<>>
          /\ out.stdout = <<>>
          /\ out.json = EmptyMap
          /\ out.ok = (out.shell \in {"bash", "zsh", "fish", "json"})
          /\ settings = Some(EmptySettings)
    /\ ~Settings_load(config).ok => (IsSome(config) /\ Malformed(Unwrap(config)))
    /\ (out.cmd \in {"allow", "deny", "export"} /\ ~out.ok /\ ~IsSome(settings)
          /\ out.err # "File does not exist") =>
          (IsSome(config) /\ Malformed(Unwrap(config)))

\* export json on a first run, in a directory with env files around
C8_Witness ==
    /\ ~IsSome(config)
    /\ out.cmd = "export" /\ out.ok /\ out.shell = "json"
    /\ \E f \in DOMAIN files : EnvFileMatches(f, out.arg)


(***************************************************************************)
(* The functions of settings.rs on their own: the settings are any list   *)
(* of registered files (a path may occur more than once in a backing file  *)
(* written by hand) or any list of rules, within the bounds.               *)
(***************************************************************************)
MaxEnvs == 3

MaxRules == 2

SeqsUpTo(S, n) == UNION {[1..k -> S] : k \in 0..n}

\* the paths a backing file may register: files, a directory, the root
LibPaths == FilePaths \cup {DirAX, Root}

Compiled(rule) == [pattern |-> Unwrap(RegexNew(rule.pattern)), env |-> rule.env]

LibSettings ==
    {[envs |-> e, paths |-> None] :
        e \in {None} \cup {Some(l) : l \in SeqsUpTo(LibPaths, MaxEnvs)}}
    \cup
    {[envs |-> None, paths |-> Some([i \in 1..Len(rs) |-> Compiled(rs[i])])] :
        rs \in SeqsUpTo(Rules, MaxRules)}

LibInit ==
    /\ files = [p \in FilePaths |-> CHOOSE c \in Contents(p) : TRUE]
    /\ config = None
    /\ granted = {}
    /\ out = Idle
    /\ call = NoCall
    /\ procs = <<>>
    /\ settings \in {Some(s) : s \in LibSettings}

CallAddEnv(path) ==
    LET self == Unwrap(settings) IN
    /\ Len(FilesOf(add_env(self, path))) <= MaxEnvs
    /\ settings' = Some(add_env(self, path))
    /\ call' = [fn |-> "add_env", args |-> <<self, path>>, ret |-> <<>>]
    /\ UNCHANGED <<files, config, granted, out, procs>>

CallRemoveEnv(path) ==
    LET self == Unwrap(settings) IN
    /\ settings' = Some(remove_env(self, path))
    /\ call' = [fn |-> "remove_env", args |-> <<self, path>>, ret |-> <<>>]
    /\ UNCHANGED <<files, config, granted, out, procs>>

CallMatchingEnvFiles(dir) ==
    LET self == Unwrap(settings) IN
    /\ call' = [fn |-> "matching_env_files", args |-> <<self, dir>>,
                ret |-> matching_env_files(self, dir)]
    /\ UNCHANGED <<files, config, settings, granted, out, procs>>

CallMatchingPatterns(dir) ==
    LET self == Unwrap(settings) IN
    /\ call' = [fn |-> "matching_patterns", args |-> <<self, dir>>,
                ret |-> matching_patterns(self, dir)]
    /\ UNCHANGED <<files, config, settings, granted, out, procs>>

LibNext ==
    \/ \E p \in LibPaths : CallAddEnv(p)
    \/ \E p \in LibPaths : CallRemoveEnv(p)
    \/ \E d \in Dirs : CallMatchingEnvFiles(d)
    \/ \E d \in Dirs : CallMatchingPatterns(d)

SpecLib == LibInit /\ [][LibNext]_vars

\* d and the directories above it, by going up parent by parent
RECURSIVE UpFrom(_)
UpFrom(d) == {d} \cup (IF d = <<>> THEN {} ELSE UpFrom(SubSeq(d, 1, Len(d) - 1)))

\* f is active for d: d is the directory f lies in, or a descendant of it
Active(f, d) ==
    /\ f # <<>>
    /\ SubSeq(f, 1, Len(f) - 1) \in UpFrom(d)

NthSmallest(S, n) == CHOOSE x \in S : Cardinality({y \in S : y <= x}) = n

OnlyFile(f) == [envs |-> Some(<<f>>), paths |-> None]

\* C2: matching_env_files returns exactly the registered files that are
\* active for the directory, in registration order, a file being active iff
\* the directory is equal to, or a descendant of, the file's parent
\* directory; /a/b/.env is active for /a/b and /a/b/c/d and not for /a or
\* /a/x.
C2_DirectoryMatcher ==
    /\ call.fn = "matching_env_files" =>
          LET envs == FilesOf(call.args[1])
              d    == call.args[2]
              idx  == {i \in 1..Len(envs) : Active(envs[i], d)}
          IN  /\ Len(call.ret) = Cardinality(idx)
              /\ \A n \in 1..Len(call.ret) : call.ret[n] = envs[NthSmallest(idx, n)]
    /\ matching_env_files(OnlyFile(EnvAB), DirAB) = <<EnvAB>>
    /\ matching_env_files(OnlyFile(EnvAB), DirABCD) = <<EnvAB>>
    /\ matching_env_files(OnlyFile(EnvAB), DirA) = <<>>
    /\ matching_env_files(OnlyFile(EnvAB), DirAX) = <<>>

\* of three registered files the first and the last are active for /a/b,
\* the one in between is not
C2_Witness ==
    /\ call.fn = "matching_env_files"
    /\ call.args[2] = DirAB
    /\ FilesOf(call.args[1]) = <<EnvAB, EnvrcABC, EnvA>>
    /\ call.ret = <<EnvAB, EnvA>>

\* C3: matching_patterns returns the variables of the first rule, in
\* registration order, whose pattern matches the directory's string, also
\* when several match, and none iff no rule matches.
C3_PatternMatcher ==
    call.fn = "matching_patterns" =>
        LET rules   == RulesOf(call.args[1])
            d       == PathToStr(call.args[2])
            matches == {i \in 1..Len(rules) : IsMatch(rules[i].pattern, d)}
        IN  /\ (call.ret = None) <=> (matches = {})
            /\ matches # {} =>
                  \E i \in matches :
                      /\ \A j \in matches : i <= j
                      /\ call.ret = Some(rules[i].env)

\* two different rules match /a/b/c, the first one's variables are returned
C3_Witness ==
    /\ call.fn = "matching_patterns"
    /\ call.args[2] = DirABC
    /\ Len(RulesOf(call.args[1])) = 2
    /\ RulesOf(call.args[1])[1].pattern.src = RuleC.pattern
    /\ RulesOf(call.args[1])[2].pattern.src = RuleAB.pattern
    /\ call.ret = Some(RuleC.env)

\* C6: remove_env removes every entry equal to the path and nothing else,
\* is idempotent, and has no failure: an unset or empty list, or one
\* without the path, stays as it is; after it the path is not registered.
C6_RemoveEnv ==
    /\ IsSome(settings) =>
          \A p \in LibPaths :
              LET s == Unwrap(settings)
                  r == remove_env(s, p)
              IN  /\ p \notin Range(FilesOf(r))
                  /\ remove_env(r, p) = r
                  /\ IsSome(r.envs) = IsSome(s.envs)
                  /\ r.paths = s.paths
                  /\ Len(FilesOf(r)) = Len(FilesOf(s)) - Count(FilesOf(s), p)
                  /\ \A q \in LibPaths \ {p} : Count(FilesOf(r), q) = Count(FilesOf(s), q)
                  /\ p \notin Range(FilesOf(s)) => r = s
    /\ call.fn = "remove_env" =>
          /\ settings = Some(remove_env(call.args[1], call.args[2]))
          /\ call.args[2] \notin Range(FilesOf(Unwrap(settings)))

\* a path registered twice was removed, another entry stayed
C6_Witness ==
    /\ call.fn = "remove_env"
    /\ Count(FilesOf(call.args[1]), call.args[2]) = 2
    /\ Len(FilesOf(Unwrap(settings))) = 1


(***************************************************************************)
(* bash.rs: the output of the wrapper script and its parsing               *)
(***************************************************************************)
StartMarker == <<"=", "=", "=", " ", "E", "N", "V", "Y", "_", "E", "N", "V", "_", "S", "T", "A", "R", "T", " ", "=", "=", "=">>

EndMarker == <<"=", "=", "=", " ", "E", "N", "V", "Y", "_", "E", "N", "V", "_", "E", "N", "D", " ", "=", "=", "=">>

\* the loop of parse_env_output over the lines of the output
RECURSIVE ParseEnvLines(_, _, _)
ParseEnvLines(lines, in_env_section, env_vars) ==
    IF lines = <<>> THEN env_vars
    ELSE LET line == Trim(Head(lines))
             kv   == SplitOnce(line, "=")
         IN  IF line = StartMarker THEN ParseEnvLines(Tail(lines), TRUE, env_vars)
             ELSE IF line = EndMarker THEN env_vars
             ELSE IF in_env_section /\ line # <<>> /\ IsSome(kv)
             THEN ParseEnvLines(Tail(lines), in_env_section,
                                MapInsert(env_vars, Unwrap(kv)[1], Unwrap(kv)[2]))
             ELSE ParseEnvLines(Tail(lines), in_env_section, env_vars)

parse_env_output(output) == Ok(ParseEnvLines(Lines(output), FALSE, EmptyMap))

\* the text of the lines, each ended by a newline
RECURSIVE Unlines(_)
Unlines(lines) ==
    IF lines = <<>> THEN <<>> ELSE Head(lines) \o <<"\n">> \o Unlines(Tail(lines))

\* Path::file_name of a path is ".envrc"
is_envrc_file(path) ==
    path # <<>> /\ path[Len(path)] = <<".", "e", "n", "v", "r", "c">>

(***************************************************************************)
(* split_env_var and parse_env_output on their own: one call on a line    *)
(* over a small alphabet, with or without the export prefix in front, or   *)
(* on the output of a run of the wrapper script.                           *)
(***************************************************************************)
MaxBody == 4

LineChars == {"K", "=", " ", "#", "\""}

LinePrefixes == {<<>>, ExportPrefix, <<" ">> \o ExportPrefix}

ParseLines == {pre \o body : pre \in LinePrefixes, body \in SeqsUpTo(LineChars, MaxBody)}

ParseInit ==
    /\ files = [p \in FilePaths |-> CHOOSE c \in Contents(p) : TRUE]
    /\ config = None
    /\ settings = None
    /\ granted = {}
    /\ out = Idle
    /\ call = NoCall
    /\ procs = <<>>

CallSplitEnvVar(var) ==
    /\ call.fn = "none"
    /\ call' = [fn |-> "split_env_var", args |-> <<var>>, ret |-> split_env_var(var)]
    /\ UNCHANGED <<files, config, settings, granted, out, procs>>

\* the standard output of a run of the wrapper script that ended well: what
\* the script printed, the start marker, the lines of the changed
\* variables, the end marker, and what was printed after it
MaxNoise == 2

MaxBlock == 2

NoiseLines == {StartMarker, EndMarker, <<"X", "=", "1">>, <<"d", "i", "a", "g">>}

BlockLines == {<<"F", "O", "O", "=", "b", "a", "r">>, <<"F", "O", "O", "=", "x">>, <<"A", "=", "1">>}

CallParseEnvOutput(before, block, after) ==
    /\ call.fn = "none"
    /\ call' = [fn |-> "parse_env_output", args |-> <<before, block, after>>,
                ret |-> parse_env_output(Unlines(before \o <<StartMarker>> \o block
                                                    \o <<EndMarker>> \o after))]
    /\ UNCHANGED <<files, config, settings, granted, out, procs>>

ParseNext ==
    \/ \E var \in ParseLines : CallSplitEnvVar(var)
    \/ \E before, after \in SeqsUpTo(NoiseLines, MaxNoise) :
          \E block \in SeqsUpTo(BlockLines, MaxBlock) :
             /\ Len(before) + Len(after) <= MaxNoise
             /\ CallParseEnvOutput(before, block, after)

SpecParse == ParseInit /\ [][ParseNext]_vars

\* the text between the first and the last character that is no blank
Stripped(t) ==
    LET solid == {i \in 1..Len(t) : ~IsWhitespace(t[i])} IN
    IF solid = {} THEN <<>>
    ELSE SubSeq(t, CHOOSE i \in solid : \A j \in solid : i <= j,
                   CHOOSE i \in solid : \A j \in solid : j <= i)

HasEq(t) == \E i \in 1..Len(t) : t[i] = "="

FirstEq(t) == CHOOSE i \in 1..Len(t) : t[i] = "=" /\ \A j \in 1..(i - 1) : t[j] # "="

\* KEY and VALUE of a line KEY=VALUE, read off the text
KeyText(t) == Stripped(SubSeq(t, 1, FirstEq(t) - 1))

ValueText(t) == Stripped(SubSeq(t, FirstEq(t) + 1, Len(t)))

\* a line KEY=VALUE: there is a '=', the key before it is one word, and the
\* line does not begin with the export prefix
IsAssignment(t) ==
    /\ HasEq(t)
    /\ \A i \in 1..Len(KeyText(t)) : ~IsWhitespace(KeyText(t)[i])
    /\ ~StartsWith(Stripped(t), ExportPrefix)

\* C9: export KEY=VALUE and KEY=VALUE, KEY being one word, give the same
\* pair: the key, and as the value everything after the first '=', trimmed,
\* quotes and further '=' kept as they are.
C9_ExportPrefix ==
    call.fn = "split_env_var" =>
        LET var  == call.args[1]
            rest == SubSeq(Stripped(var), Len(ExportPrefix) + 1, Len(Stripped(var)))
        IN  /\ IsAssignment(var) =>
                  /\ call.ret = Some(<<KeyText(var), ValueText(var)>>)
                  /\ split_env_var(ExportPrefix \o var) = call.ret
            /\ (StartsWith(Stripped(var), ExportPrefix) /\ IsAssignment(rest)) =>
                  /\ call.ret = Some(<<KeyText(rest), ValueText(rest)>>)
                  /\ split_env_var(rest) = call.ret

\* export K="= was split into K and "=
C9_Witness ==
    /\ call.fn = "split_env_var"
    /\ call.args[1] = ExportPrefix \o <<"K", "=", "\"", "=">>
    /\ call.ret = Some(<<<<"K">>, <<"\"", "=">>>>)

\* C10: a line without '=', an empty line and a comment line (the trimmed
\* line begins with '#', with or without a '=') give none.
C10_NoneForNonVariables ==
    call.fn = "split_env_var" =>
        LET var == call.args[1] IN
        (\/ ~HasEq(var)
         \/ Stripped(var) = <<>>
         \/ Head(Stripped(var)) = "#") => call.ret = None


(***************************************************************************)
(* bash.rs: the wrapper script run by bash.  The context file is read in   *)
(* a fragment of the shell language: export, unset, exit, echo, printf     *)
(* and the PATH_add function of the wrapper; any other line does nothing.  *)
(***************************************************************************)
\* a byte that is no UTF-8, as a file name may hold
NotUtf8 == "\\xFF"

\* Path::to_str
to_str(path) ==
    IF \E i \in 1..Len(path) : \E j \in 1..Len(path[i]) : path[i][j] = NotUtf8
    THEN None
    ELSE Some(PathToStr(path))

MapRemove(m, k) == [x \in (DOMAIN m) \ {k} |-> m[x]]

EndsWith(s, suf) ==
    /\ Len(s) >= Len(suf)
    /\ SubSeq(s, Len(s) - Len(suf) + 1, Len(s)) = suf

HasSubstring(s, sub) ==
    \E i \in 1..(Len(s) - Len(sub) + 1) : SubSeq(s, i, i + Len(sub) - 1) = sub

\* the text printf prints for a format without directives
RECURSIVE Unescape(_)
Unescape(s) ==
    IF s = <<>> THEN <<>>
    ELSE IF Len(s) >= 2 /\ s[1] = "\\" /\ s[2] = "n"
    THEN <<"\n">> \o Unescape(SubSeq(s, 3, Len(s)))
    ELSE <<Head(s)>> \o Unescape(Tail(s))

PathVar == <<"P", "A", "T", "H">>

\* the wrapper's PATH_add: the directory goes in front of PATH unless PATH
\* holds it already
PATH_add(sh, dir) ==
    LET path == IF PathVar \in DOMAIN sh.env THEN sh.env[PathVar] ELSE <<>> IN
    IF HasSubstring(<<":">> \o path \o <<":">>, <<":">> \o dir \o <<":">>)
    THEN sh
    ELSE [sh EXCEPT !.env = MapInsert(@, PathVar, dir \o <<":">> \o path)]

\* one line of the context file, run by the shell
BashLine(sh, line) ==
    LET after(pre) == SubSeq(line, Len(pre) + 1, Len(line))
        kv         == SplitOnce(after(ExportPrefix), "=")
        toErr      == <<" ", ">", "&", "2">>
        echoed     == after(<<"e", "c", "h", "o", " ">>)
    IN  IF StartsWith(line, ExportPrefix)
        THEN IF IsSome(kv)
             THEN [sh EXCEPT !.env = MapInsert(@, Unwrap(kv)[1], Unwrap(kv)[2])]
             ELSE sh
        ELSE IF StartsWith(line, <<"u", "n", "s", "e", "t", " ">>)
        THEN [sh EXCEPT !.env = MapRemove(@, after(<<"u", "n", "s", "e", "t", " ">>))]
        ELSE IF StartsWith(line, <<"e", "x", "i", "t", " ">>)
        THEN [sh EXCEPT !.exited = TRUE,
                        !.status = IF after(<<"e", "x", "i", "t", " ">>) = <<"0">> THEN 0 ELSE 1]
        ELSE IF StartsWith(line, <<"e", "c", "h", "o", " ">>)
        THEN IF EndsWith(echoed, toErr)
             THEN [sh EXCEPT !.stderr = @ \o SubSeq(echoed, 1, Len(echoed) - Len(toErr)) \o <<"\n">>]
             ELSE [sh EXCEPT !.stdout = @ \o echoed \o <<"\n">>]
        ELSE IF StartsWith(line, <<"p", "r", "i", "n", "t", "f", " ", "'">>) /\ EndsWith(line, <<"'">>)
        THEN [sh EXCEPT !.stdout = @ \o Unescape(SubSeq(line, 9, Len(line) - 1))]
        ELSE IF StartsWith(line, <<"P", "A", "T", "H", "_", "a", "d", "d", " ">>)
        THEN PATH_add(sh, after(<<"P", "A", "T", "H", "_", "a", "d", "d", " ">>))
        ELSE sh

\* source: the lines one after the other, until the end or an exit
RECURSIVE Source(_, _)
Source(sh, lines) ==
    IF lines = <<>> \/ sh.exited THEN sh
    ELSE Source(BashLine(sh, Head(lines)), Tail(lines))

RECURSIVE SetToSeq(_)
SetToSeq(S) ==
    IF S = {} THEN <<>>
    ELSE LET x == CHOOSE x \in S : TRUE IN <<x>> \o SetToSeq(S \ {x})

\* the lines env prints: one KEY=value for each exported variable
EnvLines(env) ==
    LET keys == SetToSeq(DOMAIN env) IN
    [i \in 1..Len(keys) |-> keys[i] \o <<"=">> \o env[keys[i]]]

\* IFS='=' read -r key value: the key is the text before the first '=', the
\* value the rest of the line; a single '=' that ends the line, with no
\* other '=' in the value, is a field terminator and is dropped
ReadKeyValue(line) ==
    LET kv   == SplitOnce(line, "=")
        rest == Unwrap(kv)[2]
    IN  IF ~IsSome(kv) THEN <<line, <<>>>>
        ELSE IF /\ rest # <<>>
                /\ rest[Len(rest)] = "="
                /\ \A i \in 1..(Len(rest) - 1) : rest[i] # "="
        THEN <<Unwrap(kv)[1], SubSeq(rest, 1, Len(rest) - 1)>>
        ELSE <<Unwrap(kv)[1], rest>>

\* grep "^$key=" on the snapshot
GrepKey(snapshot, key) ==
    SelectSeq(Lines(snapshot), LAMBDA l : StartsWith(l, key \o <<"=">>))

\* cut -d'=' -f2- of the lines, as the command substitution gives them
RECURSIVE CutValues(_)
CutValues(lines) ==
    IF lines = <<>> THEN <<>>
    ELSE Unwrap(SplitOnce(Head(lines), "="))[2]
            \o (IF Len(lines) > 1 THEN <<"\n">> ELSE <<>>) \o CutValues(Tail(lines))

\* the lines the loop of the wrapper prints: the variables of the
\* environment that the snapshot does not hold or holds with another value
RECURSIVE DiffLines(_, _)
DiffLines(snapshot, lines) ==
    IF lines = <<>> THEN <<>>
    ELSE LET key   == ReadKeyValue(Head(lines))[1]
             value == ReadKeyValue(Head(lines))[2]
             found == GrepKey(snapshot, key)
         IN  (IF found = <<>> \/ CutValues(found) # value
              THEN <<key \o <<"=">> \o value>>
              ELSE <<>>) \o DiffLines(snapshot, Tail(lines))

\* the file mktemp makes
TmpFile == <<<<"t", "m", "p">>, <<"t", "m", "p", ".", "0">>>>

\* create_extraction_script: the script is given by the path string it
\* sources
create_extraction_script(envrc_path) ==
    IF IsSome(to_str(envrc_path))
    THEN Ok(Unwrap(to_str(envrc_path)))
    ELSE Err("Invalid path encoding for .envrc file")

\* bash -c script: the snapshot of the environment is written, the context
\* file is sourced, the changed variables are printed between the markers
\* and the snapshot is removed; an exit in the context file ends the shell
\* there and then
RunScript(fs, envrc_str, env) ==
    LET snapshot == Unlines(EnvLines(env))
        fs1      == [p \in (DOMAIN fs) \cup {TmpFile} |-> IF p = TmpFile THEN snapshot ELSE fs[p]]
        sh0      == [env |-> env, stdout |-> <<>>, stderr |-> <<>>, exited |-> FALSE, status |-> 0]
        envrc    == StrToPath(envrc_str)
        sh1      == IF envrc \in DOMAIN fs1
                    THEN Source(sh0, Lines(fs1[envrc]))
                    ELSE [sh0 EXCEPT !.stderr = <<"N", "o", " ", "s", "u", "c", "h", " ", "f", "i", "l", "e", " ", "o", "r", " ", "d", "i", "r", "e", "c", "t", "o", "r", "y", "\n">>]
    IN  IF sh1.exited
        THEN [status |-> sh1.status, stdout |-> sh1.stdout, stderr |-> sh1.stderr,
              files |-> fs1]
        ELSE [status |-> 0,
              stdout |-> sh1.stdout
                            \o Unlines(<<StartMarker>>
                                          \o DiffLines(snapshot, EnvLines(sh1.env))
                                          \o <<EndMarker>>),
              stderr |-> sh1.stderr,
              files  |-> [p \in (DOMAIN fs1) \ {TmpFile} |-> fs1[p]]]

\* process_envrc that parses the output whatever the exit status
process_envrc_any_status(fs, envrc_path, env, has_bash) ==
    LET script == create_extraction_script(envrc_path)
        output == RunScript(fs, Unwrap(script.val), env)
    IN  IF ~script.ok THEN [ret |-> script, files |-> fs]
        ELSE IF ~has_bash
        THEN [ret |-> Err("Failed to execute bash subprocess"), files |-> fs]
        ELSE [ret |-> parse_env_output(output.stdout), files |-> output.files]

\* process_envrc, and the files it leaves behind.  The paths of the model
\* are absolute, the working directory of the subprocess plays no part.
process_envrc(fs, envrc_path, env, has_bash) ==
    LET script == create_extraction_script(envrc_path)
        output == RunScript(fs, Unwrap(script.val), env)
    IN  IF ~script.ok THEN [ret |-> script, files |-> fs]
        ELSE IF ~has_bash
        THEN [ret |-> Err("Failed to execute bash subprocess"), files |-> fs]
        ELSE IF output.status # 0
        THEN [ret |-> Err(<<"Bash script execution failed: ", output.stderr>>),
              files |-> output.files]
        ELSE [ret |-> parse_env_output(output.stdout), files |-> output.files]

(***************************************************************************)
(* process_envrc on its own: one call on a context file of a few lines,    *)
(* in a process with a small environment.                                  *)
(***************************************************************************)
MaxScript == 2

ScriptLines ==
    {<<"e", "x", "p", "o", "r", "t", " ", "F", "O", "O", "=", "b", "a", "r">>, <<"e", "x", "p", "o", "r", "t", " ", "A", "=", "2">>, <<"u", "n", "s", "e", "t", " ", "A">>, <<"e", "x", "i", "t", " ", "1">>, <<"e", "x", "i", "t", " ", "0">>,
     <<"e", "c", "h", "o", " ", "o", "o", "p", "s", " ", ">", "&", "2">>, <<"P", "A", "T", "H", "_", "a", "d", "d", " ", "/", "x">>,
     <<"p", "r", "i", "n", "t", "f", " ", "'", "=", "=", "=", " ", "E", "N", "V", "Y", "_", "E", "N", "V", "_", "S", "T", "A", "R", "T", " ", "=", "=", "=", "\\", "n", "F", "O", "O", "=", "e", "v", "i", "l", "\\", "n", "=", "=", "=", " ", "E", "N", "V", "Y", "_", "E", "N", "V", "_", "E", "N", "D", " ", "=", "=", "=", "\\", "n", "'">>}

\* the environment of the process that calls
Baselines ==
    {(PathVar :> <<"/", "b", "i", "n">>),
     (PathVar :> <<"/", "b", "i", "n">>) @@ (<<"A">> :> <<"1">>),
     (PathVar :> <<"/", "b", "i", "n">>) @@ (<<"T">> :> <<"a", "=">>)}

\* a context file with a name that is no UTF-8
EnvrcRaw == <<<<"a">>, <<NotUtf8>>, <<".", "e", "n", "v", "r", "c">>>>

SandboxInit ==
    /\ files \in {[p \in {EnvrcABC} |-> Unlines(s)] : s \in SeqsUpTo(ScriptLines, MaxScript)}
    /\ config = None
    /\ settings = None
    /\ granted = {}
    /\ out = Idle
    /\ call = NoCall
    /\ procs = <<>>

CallProcessEnvrc(envrc_path, env, has_bash) ==
    /\ call.fn = "none"
    /\ call' = [fn |-> "process_envrc", args |-> <<envrc_path, env, has_bash>>,
                ret |-> process_envrc(files, envrc_path, env, has_bash).ret]
    /\ files' = process_envrc(files, envrc_path, env, has_bash).files
    /\ UNCHANGED <<config, settings, granted, out, procs>>

SandboxNext ==
    \E envrc_path \in {EnvrcABC, EnvrcRaw}, env \in Baselines, has_bash \in BOOLEAN :
        CallProcessEnvrc(envrc_path, env, has_bash)

SpecSandbox == SandboxInit /\ [][SandboxNext]_vars

(***************************************************************************)
(* The lines of an env file (get_env_vars_from_file and what load and      *)
(* export make of them)                                                    *)
(***************************************************************************)
\* a line that stands for no variable: blank, a comment (the first
\* character that is no blank is '#'), or without '='
IgnoredLine(line) ==
    \/ Stripped(line) = <<>>
    \/ Head(Stripped(line)) = "#"
    \/ ~HasEq(line)

\* the lines of a file that stand for a variable, in file order
VariableLines(f) == SelectSeq(Lines(files[f]), LAMBDA line : ~IgnoredLine(line))

\* the variable lines an invocation had before it: those of the file for
\* load, those of the matching rule and then of each file read for export
LinesBefore ==
    IF out.cmd = "load" THEN VariableLines(Resolve(out.arg))
    ELSE LET rule == matching_patterns(Unwrap(settings), out.arg) IN
         (IF IsSome(rule) THEN Unwrap(rule) ELSE <<>>)
            \o Flatten([i \in 1..Len(out.read) |-> VariableLines(out.read[i])])

\* C11: blank lines, comment lines (indented or not) and lines without '='
\* of an env file are ignored by load and by export in every dialect: what
\* is put out is one line (one entry) for each other line, in file order,
\* and nothing else.
C11_IgnoredLines ==
    (/\ out.cmd \in {"load", "export"}
     /\ out.ok
     /\ out.cmd = "export" => IsSome(settings)) =>
        /\ out.shell \in {"", "bash", "zsh"} =>
              /\ Len(out.stdout) = Len(LinesBefore)
              /\ \A i \in 1..Len(LinesBefore) :
                    split_env_var(out.stdout[i]) = split_env_var(LinesBefore[i])
        /\ out.shell = "fish" => out.stdout = export_fish(LinesBefore)
        /\ out.shell = "json" => out.json = export_json(LinesBefore)



\* the mapping the lines of a block stand for: each line split at its first
\* '=', the last line of a key giving its value
BlockMap(block) ==
    LET keyOf(l) == Unwrap(SplitOnce(l, "="))[1]
        valOf(l) == Unwrap(SplitOnce(l, "="))[2]
        last(k)  == CHOOSE i \in 1..Len(block) :
                        /\ keyOf(block[i]) = k
                        /\ \A j \in (i + 1)..Len(block) : keyOf(block[j]) # k
    IN  [k \in {keyOf(block[i]) : i \in 1..Len(block)} |-> valOf(block[last(k)])]

\* C12: the mapping parse_env_output returns is that of the lines between
\* the wrapper's start marker and its end marker, whatever was printed
\* before the start marker and after the end marker.
C12_OutputFraming ==
    call.fn = "parse_env_output" =>
        call.ret = Ok(BlockMap(call.args[2]))



\* the files before the call of process_envrc
FilesBefore == [p \in (DOMAIN files) \ {TmpFile} |-> files[p]]

\* the call of process_envrc got as far as running the subprocess
RanScript ==
    /\ call.fn = "process_envrc"
    /\ IsSome(to_str(call.args[1]))
    /\ call.args[3]

\* the run of the subprocess the call made
RunOf == RunScript(FilesBefore, Unwrap(to_str(call.args[1])), call.args[2])

\* C13: when the subprocess ends with a status that is not zero,
\* process_envrc fails with the error that carries what the subprocess
\* wrote to standard error, and returns no mapping, whatever the
\* subprocess wrote to standard output.
C13_NonZeroExit ==
    (RanScript /\ RunOf.status # 0) =>
        /\ ~call.ret.ok
        /\ call.ret.val = None
        /\ call.ret.err = <<"Bash script execution failed: ", RunOf.stderr>>

\* the context file printed a whole block between the markers and then
\* ended the shell with status 1: the call failed
C13_Witness ==
    /\ RanScript
    /\ RunOf.status = 1
    /\ RunOf.stdout = Unlines(<<StartMarker, <<"F", "O", "O", "=", "e", "v", "i", "l">>, EndMarker>>)
    /\ parse_env_output(RunOf.stdout).val # Some(EmptyMap)
    /\ ~call.ret.ok

\* C14: when a call of process_envrc has returned, with a mapping or with
\* an error, the snapshot file the wrapper made is gone.
C14_ScratchFileRemoved ==
    call.fn = "process_envrc" => TmpFile \notin DOMAIN files

\* the context file as the shell ran it, from the environment of the caller
Sourced ==
    Source([env |-> call.args[2], stdout |-> <<>>, stderr |-> <<>>,
            exited |-> FALSE, status |-> 0],
           Lines(files[EnvrcABC]))

\* the variables of final that baseline does not hold or holds with
\* another value
SnapshotDiff(baseline, final) ==
    [k \in {x \in DOMAIN final : x \notin DOMAIN baseline \/ baseline[x] # final[x]}
        |-> final[k]]

\* C15: the mapping process_envrc returns for a context file that ran to
\* its end and printed nothing holds a variable if and only if the
\* environment after the context file holds it and the environment before
\* did not, or held it with another value; its value is the one after.
C15_SnapshotDiff ==
    (RanScript /\ call.ret.ok /\ ~Sourced.exited /\ Sourced.stdout = <<>>) =>
        call.ret.val = Some(SnapshotDiff(call.args[2], Sourced.env))



\* C16: allow, deny and load of a path that does not exist fail with "File
\* does not exist" and print no variable; the settings are not loaded and
\* the backing file stays as it was, present or not.
C16_FileNotFound ==
    [][(/\ out'.cmd \in {"allow", "deny", "load"}
        /\ ~Exists(files, out'.arg))
       => /\ ~out'.ok
          /\ out'.err = "File does not exist"
          /\ out'.stdout = <<>>
          /\ out'.json = EmptyMap
          /\ out'.read = <<>>
          /\ settings' = None
          /\ config' = config
          /\ files' = files]_vars

\* a deny of a file that was allowed and then removed from disk has
\* failed; the file is still registered
C16_Witness ==
    /\ out.cmd = "deny"
    /\ ~out.ok
    /\ out.err = "File does not exist"
    /\ ~Exists(files, out.arg)
    /\ Canonicalize(out.arg) \in RegisteredNow



\* the environment of the process export runs in
ProcessEnv == (PathVar :> <<"/", "b", "i", "n">>)

\* C17: every file export reads that is a script context file (.envrc) is
\* run through process_envrc, and each variable its run changed is in what
\* export puts out (JSON: a key of the object); an allowed .envrc with
\* PATH_add /x gives a PATH that holds /x.
C17_ResolutionRouting ==
    (out.cmd = "export" /\ out.ok /\ out.shell = "json") =>
        \A i \in 1..Len(out.read) :
            is_envrc_file(out.read[i]) =>
                LET ran == process_envrc(files, out.read[i], ProcessEnv, TRUE).ret IN
                /\ ran.ok
                /\ DOMAIN Unwrap(ran.val) \subseteq DOMAIN out.json
                /\ PathVar \in DOMAIN Unwrap(ran.val) =>
                      HasSubstring(out.json[PathVar], <<"/", "x">>)



(***************************************************************************)
(* Two invocations of allow or deny side by side (main.rs): each loads the *)
(* whole backing file, changes the list in memory and saves the whole      *)
(* file; nothing locks the file between the load and the save.             *)
(***************************************************************************)
Procs == {"p", "q"}

RaceCommands == {"allow", "deny"}

\* the backing file when the two start
RaceConfigs ==
    {None, Some(NotToml), Settings_save([envs |-> Some(<<EnvAB>>), paths |-> None])}

Started(cmd, arg) ==
    [pc |-> "start", cmd |-> cmd, arg |-> arg, mem |-> None, ok |-> FALSE,
     overlapped |-> FALSE]

RaceInit ==
    /\ files \in {[p \in FilePaths \ gone |-> CHOOSE c \in Contents(p) : TRUE] :
                     gone \in {{}, {EnvA}}}
    /\ config \in RaceConfigs
    /\ settings = None
    /\ granted = RegisteredNow
    /\ out = Idle
    /\ call = NoCall
    /\ procs \in [Procs -> {Started(cmd, arg) : cmd \in RaceCommands, arg \in Operands}]

\* the first half of allow and deny that starts from an empty list instead
\* of the loaded one
RaceLoad_from_empty(p) ==
    LET me     == procs[p]
        loaded == Settings_load(config)
        path   == Canonicalize(me.arg)
        others == {q \in Procs \ {p} : procs[q].pc = "loaded"}
    IN  /\ me.pc = "start"
        /\ IF ~Exists(files, me.arg) \/ ~loaded.ok
           THEN procs' = [procs EXCEPT ![p].pc = "done"]
           ELSE procs' = [q \in Procs |->
                    IF q = p
                    THEN [me EXCEPT !.pc = "loaded",
                                    !.mem = Some(IF me.cmd = "allow"
                                                 THEN add_env(EmptySettings, path)
                                                 ELSE remove_env(EmptySettings, path)),
                                    !.overlapped = others # {}]
                    ELSE IF q \in others THEN [procs[q] EXCEPT !.overlapped = TRUE]
                    ELSE procs[q]]
        /\ UNCHANGED <<files, config, settings, granted, out, call>>

\* the first half of allow and deny: the file is looked for, the settings
\* are loaded and the list is changed in memory
RaceLoad(p) ==
    LET me     == procs[p]
        loaded == Settings_load(config)
        path   == Canonicalize(me.arg)
        others == {q \in Procs \ {p} : procs[q].pc = "loaded"}
    IN  /\ me.pc = "start"
        /\ IF ~Exists(files, me.arg) \/ ~loaded.ok
           THEN procs' = [procs EXCEPT ![p].pc = "done"]
           ELSE procs' = [q \in Procs |->
                    IF q = p
                    THEN [me EXCEPT !.pc = "loaded",
                                    !.mem = Some(IF me.cmd = "allow"
                                                 THEN add_env(Unwrap(loaded.val), path)
                                                 ELSE remove_env(Unwrap(loaded.val), path)),
                                    !.overlapped = others # {}]
                    ELSE IF q \in others THEN [procs[q] EXCEPT !.overlapped = TRUE]
                    ELSE procs[q]]
        /\ UNCHANGED <<files, config, settings, granted, out, call>>

\* the second half: the settings in memory are saved over the backing file
RaceSave(p) ==
    LET me   == procs[p]
        path == Canonicalize(me.arg)
    IN  /\ me.pc = "loaded"
        /\ config' = Settings_save(Unwrap(me.mem))
        /\ granted' = IF me.cmd = "allow" THEN granted \cup {path} ELSE granted \ {path}
        /\ procs' = [procs EXCEPT ![p].pc = "done", ![p].ok = TRUE]
        /\ UNCHANGED <<files, settings, out, call>>

RaceNext ==
    \/ \E p \in Procs : RaceLoad(p)
    \/ \E p \in Procs : RaceSave(p)

SpecRace == RaceInit /\ [][RaceNext]_vars

AllDone == \A p \in Procs : procs[p].pc = "done"

\* C18: when the two invocations ran one after the other, in either
\* order, the backing file holds both changes: the registered files are
\* those registered before and allowed, less those denied since, and for
\* two different files each allowed file is registered and each denied
\* file is not.  (That the two can also interleave so that one change is
\* lost is the state C18_Witness describes.)
C18_LostUpdate ==
    (procs # <<>> /\ AllDone /\ \A p \in Procs : ~procs[p].overlapped) =>
        /\ RegisteredNow = granted
        /\ \A p \in Procs :
              (/\ procs[p].ok
               /\ \A q \in Procs \ {p} :
                     Canonicalize(procs[q].arg) # Canonicalize(procs[p].arg))
              => (Canonicalize(procs[p].arg) \in RegisteredNow <=> procs[p].cmd = "allow")

\* two allows of different files interleaved, each loading before the
\* other saved: both succeeded and only one of the files is registered
C18_Witness ==
    /\ procs # <<>>
    /\ AllDone
    /\ \A p \in Procs : procs[p].ok /\ procs[p].cmd = "allow" /\ procs[p].overlapped
    /\ granted = {EnvA, EnvAB}
    /\ Cardinality(RegisteredNow) = 1



\* C19: a deny of a registered path succeeds and leaves the path
\* unregistered, whether or not the file is still on disk; so the file that
\* makes export fail can always be taken off the list.
C19_DenyRegistered ==
    [][(/\ out'.cmd = "deny"
        /\ Canonicalize(out'.arg) \in RegisteredNow)
       => /\ out'.ok
          /\ Canonicalize(out'.arg) \notin RegisteredNow']_vars


====
